---------------------------- MODULE Spec2Model ----------------------------
(***************************************************************************)
(* Model of src/utils/text-tools.ts: buildMdFromAnswer (footnote           *)
(* reconciliation) and smartMergeStrings (fragment merging).               *)
(*                                                                         *)
(* A JavaScript string is modelled as a sequence of one-character strings, *)
(* so that the regular expressions, trim(), slice() and includes() of the  *)
(* source are computed character by character.  The glyph U+205C that the  *)
(* source writes in front of an appended marker line is the character      *)
(* named Glyph.                                                            *)
(***************************************************************************)
EXTENDS Integers, Sequences, FiniteSets, TLC

VARIABLES
    answer,      \* answer.answer: the text given to buildMdFromAnswer
    references,  \* answer.references: the ordered reference records
    str1,        \* first argument of smartMergeStrings
    str2,        \* second argument of smartMergeStrings
    pc,          \* "ready" before the call, then "returned" or "threw"
    path,        \* the return statement the call reached
    result       \* the returned string (<<>> when the call threw)

vars == <<answer, references, str1, str2, pc, path, result>>

---------------------------------------------------------------------------
(* Bounds of the checked inputs *)

MaxChunks == 3
MaxRefs == 3
MaxRefList == 2
MaxLen == 3

---------------------------------------------------------------------------
(* Characters *)

Glyph == "U+205C"
NL == "\n"
EOF == ""

Digits == {"0", "1", "2", "3", "4", "5", "6", "7", "8", "9"}

\* the characters matched by \s among those the model uses
WhiteSpace == {" ", "\n"}

\* the characters matched by \p{L} among those the model uses
Letters == {"a", "b", "c", "d", "e", "f", "g", "h", "i", "j", "k", "l", "m",
            "n", "o", "p", "q", "r", "s", "t", "u", "v", "w", "x", "y", "z",
            "H"}

DigitChar(d) == <<"0", "1", "2", "3", "4", "5", "6", "7", "8", "9">>[d + 1]

DigitValue(c) == CHOOSE d \in 0..9 : DigitChar(d) = c

\* s[i], or EOF past the end of s
At(s, i) == IF i >= 1 /\ i <= Len(s) THEN s[i] ELSE EOF

\* `${n}` for a non-negative integer n
RECURSIVE Str(_)
Str(n) == IF n < 10 THEN <<DigitChar(n)>>
          ELSE Str(n \div 10) \o <<DigitChar(n % 10)>>

\* parseInt(ds) for a non-empty sequence of digits
RECURSIVE ParseInt(_)
ParseInt(ds) == IF Len(ds) = 0 THEN 0
                ELSE 10 * ParseInt(SubSeq(ds, 1, Len(ds) - 1)) + DigitValue(ds[Len(ds)])

\* String.prototype.trim
RECURSIVE TrimStart(_)
TrimStart(s) == IF Len(s) > 0 /\ s[1] \in WhiteSpace THEN TrimStart(Tail(s)) ELSE s

RECURSIVE TrimEnd(_)
TrimEnd(s) == IF Len(s) > 0 /\ s[Len(s)] \in WhiteSpace
              THEN TrimEnd(SubSeq(s, 1, Len(s) - 1)) ELSE s

\* a trim of the end only (trimEnd in place of trim)
TrimEndOnly(s) == TrimEnd(s)

Trim(s) == TrimEnd(TrimStart(s))

\* String.prototype.includes
Includes(s, t) == \E i \in 0..(Len(s) - Len(t)) : SubSeq(s, i + 1, i + Len(t)) = t

\* String.prototype.startsWith
StartsWith(s, t) == Len(s) >= Len(t) /\ SubSeq(s, 1, Len(t)) = t

\* Array.prototype.join
RECURSIVE Join(_, _)
Join(parts, sep) == IF Len(parts) = 0 THEN <<>>
                    ELSE IF Len(parts) = 1 THEN parts[1]
                    ELSE parts[1] \o sep \o Join(Tail(parts), sep)

\* `[^${ds}]`
MarkerOf(ds) == <<"[", "^">> \o ds \o <<"]">>

---------------------------------------------------------------------------
(* The two regular expressions of buildMdFromAnswer *)

\* the index after the longest run of digits that starts at i (i when none)
RECURSIVE DigitsEnd(_, _)
DigitsEnd(s, i) == IF At(s, i) \in Digits THEN DigitsEnd(s, i + 1) ELSE i

RECURSIVE SpaceEnd(_, _)
SpaceEnd(s, i) == IF At(s, i) \in WhiteSpace THEN SpaceEnd(s, i + 1) ELSE i

\* footnoteRegex /\[\^(\d+)]/ matched at i: the index after the match, or 0
MatchFootnote(s, i) ==
    IF At(s, i) = "[" /\ At(s, i + 1) = "^"
    THEN LET e == DigitsEnd(s, i + 2)
         IN IF e > i + 2 /\ At(s, e) = "]" THEN e + 1 ELSE 0
    ELSE 0

\* the (?:,\s*\^(\d+))+] part of groupedFootnoteRegex matched at j, after
\* `groups` groups were matched: the index after the match, or 0
RECURSIVE GroupsEnd(_, _, _)
GroupsEnd(s, j, groups) ==
    IF At(s, j) = ","
    THEN LET k == SpaceEnd(s, j + 1)
             e == DigitsEnd(s, k + 1)
         IN IF At(s, k) = "^" /\ e > k + 1 THEN GroupsEnd(s, e, groups + 1) ELSE 0
    ELSE IF At(s, j) = "]" /\ groups >= 1 THEN j + 1
    ELSE 0

\* groupedFootnoteRegex /\[\^(\d+)(?:,\s*\^(\d+))+]/ matched at i
MatchGrouped(s, i) ==
    IF At(s, i) = "[" /\ At(s, i + 1) = "^"
    THEN LET e == DigitsEnd(s, i + 2)
         IN IF e > i + 2 THEN GroupsEnd(s, e, 0) ELSE 0
    ELSE 0

\* match.match(/\d+/g): the runs of digits of m from index i on
RECURSIVE DigitRuns(_, _)
DigitRuns(m, i) ==
    IF i > Len(m) THEN <<>>
    ELSE IF m[i] \in Digits
         THEN LET e == DigitsEnd(m, i)
              IN <<SubSeq(m, i, e - 1)>> \o DigitRuns(m, e)
         ELSE DigitRuns(m, i + 1)

\* numbers.map(num => `[^${num}]`).join(', ')
ExpandGrouped(m) ==
    LET numbers == DigitRuns(m, 1)
    IN Join([k \in 1..Len(numbers) |-> MarkerOf(numbers[k])], <<",", " ">>)

\* s.replace(groupedFootnoteRegex, expand), scanning from index i
RECURSIVE ReplaceGroupedFrom(_, _)
ReplaceGroupedFrom(s, i) ==
    IF i > Len(s) THEN <<>>
    ELSE LET e == MatchGrouped(s, i)
         IN IF e > 0 THEN ExpandGrouped(SubSeq(s, i, e - 1)) \o ReplaceGroupedFrom(s, e)
            ELSE <<s[i]>> \o ReplaceGroupedFrom(s, i + 1)

ReplaceGrouped(s) == ReplaceGroupedFrom(s, 1)

\* s.replace(footnoteRegex, ''), scanning from index i
RECURSIVE RemoveFootnotesFrom(_, _)
RemoveFootnotesFrom(s, i) ==
    IF i > Len(s) THEN <<>>
    ELSE LET e == MatchFootnote(s, i)
         IN IF e > 0 THEN RemoveFootnotesFrom(s, e)
            ELSE <<s[i]>> \o RemoveFootnotesFrom(s, i + 1)

RemoveFootnotes(s) == RemoveFootnotesFrom(s, 1)

\* the while loop over footnoteRegex.exec: match[1] of every match, in order
RECURSIVE ExtractFootnotesFrom(_, _)
ExtractFootnotesFrom(s, i) ==
    IF i > Len(s) THEN <<>>
    ELSE LET e == MatchFootnote(s, i)
         IN IF e > 0 THEN <<SubSeq(s, i + 2, e - 2)>> \o ExtractFootnotesFrom(s, e)
            ELSE ExtractFootnotesFrom(s, i + 1)

ExtractFootnotes(s) == ExtractFootnotesFrom(s, 1)

\* s.replace(footnoteRegex, () => `[^${++currentIndex}]`), scanning from i
RECURSIVE CorrectFootnotesFrom(_, _, _)
CorrectFootnotesFrom(s, i, currentIndex) ==
    IF i > Len(s) THEN <<>>
    ELSE LET e == MatchFootnote(s, i)
         IN IF e > 0
            THEN MarkerOf(Str(currentIndex + 1)) \o CorrectFootnotesFrom(s, e, currentIndex + 1)
            ELSE <<s[i]>> \o CorrectFootnotesFrom(s, i + 1, currentIndex)

\* currentIndex++ in place of ++currentIndex
CorrectFootnotesPostIncrement(s) == CorrectFootnotesFrom(s, 1, -1)

CorrectFootnotes(s) == CorrectFootnotesFrom(s, 1, 0)

---------------------------------------------------------------------------
(* formatReferences *)

\* ref.url is [present |-> FALSE] when the field is absent
NoUrl == [present |-> FALSE, text |-> <<>>]
Url(u) == [present |-> TRUE, text |-> u]

Http == <<"h", "t", "t", "p">>

\* ref.url?.startsWith('http')
UrlStartsWithHttp(url) == url.present /\ StartsWith(url.text, Http)

\* the index of the first c in u from index i on, or 0
RECURSIVE IndexOf(_, _, _)
IndexOf(u, c, i) == IF i > Len(u) THEN 0
                    ELSE IF u[i] = c THEN i ELSE IndexOf(u, c, i + 1)

RECURSIVE SlashesEnd(_, _)
SlashesEnd(u, i) == IF At(u, i) = "/" THEN SlashesEnd(u, i + 1) ELSE i

RECURSIVE HostEnd(_, _)
HostEnd(u, i) == IF At(u, i) \in {EOF, "/", "?", "#"} THEN i ELSE HostEnd(u, i + 1)

SpecialSchemes == {Http, Http \o <<"s">>}

\* new URL(u), for u without a base: the scheme runs to the first ":"; a
\* special scheme (http, https) takes its host after any slashes and fails on
\* an empty host; any other scheme has a host only after "//"
UrlScheme(u) == SubSeq(u, 1, IndexOf(u, ":", 1) - 1)

UrlHostStart(u) ==
    LET c == IndexOf(u, ":", 1)
    IN IF UrlScheme(u) \in SpecialSchemes THEN SlashesEnd(u, c + 1)
       ELSE IF At(u, c + 1) = "/" /\ At(u, c + 2) = "/" THEN c + 3
       ELSE 0

\* new URL(u).hostname
UrlHostname(u) ==
    LET h == UrlHostStart(u)
    IN IF h = 0 THEN <<>> ELSE SubSeq(u, h, HostEnd(u, h) - 1)

\* new URL(u) returns rather than throws
UrlParses(u) ==
    /\ IndexOf(u, ":", 1) > 1
    /\ \A i \in 1..Len(UrlScheme(u)) : UrlScheme(u)[i] \in Letters \cup Digits
    /\ UrlScheme(u)[1] \in Letters
    /\ UrlScheme(u) \in SpecialSchemes => UrlHostname(u) # <<>>

\* s.replace(pat, ''): the first occurrence of the string pat is removed
RECURSIVE RemoveFirstFrom(_, _, _)
RemoveFirstFrom(s, pat, i) ==
    IF i + Len(pat) - 1 > Len(s) THEN s
    ELSE IF SubSeq(s, i, i + Len(pat) - 1) = pat
         THEN SubSeq(s, 1, i - 1) \o SubSeq(s, i + Len(pat), Len(s))
         ELSE RemoveFirstFrom(s, pat, i + 1)

\* .replace(/[^\p{L}\p{N}\s]/gu, ' ')
BlankPunctuation(q) ==
    [i \in 1..Len(q) |-> IF q[i] \in Letters \cup Digits \cup WhiteSpace THEN q[i] ELSE " "]

\* .replace(/\s+/g, ' ')
RECURSIVE CollapseSpaceFrom(_, _)
CollapseSpaceFrom(q, i) ==
    IF i > Len(q) THEN <<>>
    ELSE IF q[i] \in WhiteSpace THEN <<" ">> \o CollapseSpaceFrom(q, SpaceEnd(q, i))
    ELSE <<q[i]>> \o CollapseSpaceFrom(q, i + 1)

cleanQuote(q) == CollapseSpaceFrom(BlankPunctuation(q), 1)

\* `[^${i + 1}]: ${cleanQuote}`, with i the 0-based position
citation(ref, i) == MarkerOf(Str(i + 1)) \o <<":", " ">> \o cleanQuote(ref.exactQuote)

\* one element of refs.map(...), for a reference whose URL parses
formatReference(ref, i) ==
    IF ~UrlStartsWithHttp(ref.url) THEN citation(ref, i)
    ELSE LET domainName == RemoveFirstFrom(UrlHostname(ref.url.text), <<"w", "w", "w", ".">>, 1)
         IN citation(ref, i) \o <<" ", "[">> \o domainName \o <<"]", "(">>
                \o ref.url.text \o <<")">>

\* the error of new URL caught inside formatReferences
formatReferencesCatches(refs) == FALSE

\* formatReferences(refs) throws: new URL throws for some reference
formatReferencesThrows(refs) ==
    \E i \in 1..Len(refs) : UrlStartsWithHttp(refs[i].url) /\ ~UrlParses(refs[i].url.text)

\* formatReferences(refs), when it does not throw
formatReferences(refs) ==
    Join([k \in 1..Len(refs) |-> formatReference(refs[k], k - 1)], <<NL, NL>>)

---------------------------------------------------------------------------
(* buildMdFromAnswer *)

AllSame(footnotes) == \A k \in 1..Len(footnotes) : footnotes[k] = footnotes[1]

needsCorrection(footnotes, n) ==
    \/ Len(footnotes) = n /\ AllSame(footnotes)
    \/ AllSame(footnotes) /\ Len(footnotes) > 0 /\ ParseInt(footnotes[1]) > n
    \/ Len(footnotes) > 0 /\ \A k \in 1..Len(footnotes) : ParseInt(footnotes[k]) > n

\* `[^${i}]` in place of `[^${i + 1}]`
appendedCitationsZeroBased(n) == Join([k \in 1..n |-> MarkerOf(Str(k - 1))], <<>>)

\* Array.from({length: n}, (_, i) => `[^${i + 1}]`).join('')
appendedCitations(n) == Join([k \in 1..n |-> MarkerOf(Str(k))], <<>>)

\* the used indices not left out of the marker line
unusedReferencesAll(footnotes, n) == Join([k \in 1..n |-> MarkerOf(Str(k))], <<>>)

\* Array.from({length: n}, (_, i) => !usedIndices.has(i + 1) ? `[^${i + 1}]` : '').join('')
unusedReferences(footnotes, n) ==
    LET usedIndices == {ParseInt(footnotes[k]) : k \in 1..Len(footnotes)}
    IN Join([k \in 1..n |-> IF k \notin usedIndices THEN MarkerOf(Str(k)) ELSE <<>>], <<>>)

Returned(p, s) == [status |-> "returned", path |-> p, value |-> s]
Threw(p) == [status |-> "threw", path |-> p, value |-> <<>>]

\* the return of the first case (no references)
NoReferencesReturn(ans) == RemoveFootnotes(ReplaceGrouped(ans))

\* the template literal of the no-footnotes case
NoMarkersReturn(processedAnswer, refs) ==
    Trim(<<NL>> \o processedAnswer \o <<NL, NL, Glyph>> \o appendedCitations(Len(refs))
         \o <<NL, NL>> \o formatReferences(refs) \o <<NL>>)

\* the template literal of the more-references-than-footnotes case
MoreReferencesReturn(processedAnswer, footnotes, refs) ==
    Trim(<<NL>> \o processedAnswer \o <<" ", NL, NL, Glyph>>
         \o unusedReferences(footnotes, Len(refs))
         \o <<NL, NL>> \o formatReferences(refs) \o <<NL>>)

\* the template literal of the last two returns
WithReferencesReturn(text, refs) ==
    Trim(<<NL>> \o text \o <<NL, NL>> \o formatReferences(refs) \o <<NL>>)

\* which return statement the call reaches
BranchOf(footnotes, n) ==
    IF n = 0 THEN "no-references"
    ELSE IF Len(footnotes) = 0 THEN "no-markers"
    ELSE IF n > Len(footnotes) /\ ~needsCorrection(footnotes, n) THEN "more-references"
    ELSE IF ~needsCorrection(footnotes, n) THEN "default"
    ELSE "correction"

buildMdFromAnswer(ans, refs) ==
    LET processedAnswer == ReplaceGrouped(ans)
        footnotes == ExtractFootnotes(processedAnswer)
        branch == BranchOf(footnotes, Len(refs))
    IN IF branch = "no-references" THEN Returned(branch, NoReferencesReturn(ans))
       ELSE IF formatReferencesThrows(refs) THEN Threw(branch)
       ELSE IF branch = "no-markers"
            THEN Returned(branch, NoMarkersReturn(processedAnswer, refs))
       ELSE IF branch = "more-references"
            THEN Returned(branch, MoreReferencesReturn(processedAnswer, footnotes, refs))
       ELSE IF branch = "default"
            THEN Returned(branch, WithReferencesReturn(processedAnswer, refs))
       ELSE Returned(branch, WithReferencesReturn(CorrectFootnotes(processedAnswer), refs))

---------------------------------------------------------------------------
(* smartMergeStrings *)

\* the loop run upward: the smallest overlap in place of the largest
smallestOverlapLength(a, b, overlapLength) ==
    LET found == {l \in 1..overlapLength :
                    SubSeq(a, Len(a) - l + 1, Len(a)) = SubSeq(b, 1, l)}
    IN IF found = {} THEN 0 ELSE CHOOSE l \in found : \A m \in found : l <= m

\* the for loop: the first overlapLength from `overlapLength` downward whose
\* suffix of a equals the prefix of b, or 0
RECURSIVE bestOverlapLength(_, _, _)
bestOverlapLength(a, b, overlapLength) ==
    IF overlapLength <= 0 THEN 0
    ELSE IF SubSeq(a, Len(a) - overlapLength + 1, Len(a)) = SubSeq(b, 1, overlapLength)
         THEN overlapLength
         ELSE bestOverlapLength(a, b, overlapLength - 1)

Min(x, y) == IF x <= y THEN x ELSE y
Max(x, y) == IF x >= y THEN x ELSE y

\* the two includes() checks left out
smartMergeStringsNoContainment(a, b) ==
    IF Len(a) = 0 THEN b
    ELSE IF Len(b) = 0 THEN a
    ELSE LET best == bestOverlapLength(a, b, Min(Len(a), Len(b)))
         IN IF best > 0 THEN SubSeq(a, 1, Len(a) - best) \o b ELSE a \o b

\* maxOverlap taken as the overlap without comparing the two slices
smartMergeStringsUnchecked(a, b) ==
    IF Len(a) = 0 THEN b
    ELSE IF Len(b) = 0 THEN a
    ELSE IF Includes(a, b) THEN a
    ELSE IF Includes(b, a) THEN b
    ELSE SubSeq(a, 1, Len(a) - Min(Len(a), Len(b))) \o b

smartMergeStrings(a, b) ==
    IF Len(a) = 0 THEN b
    ELSE IF Len(b) = 0 THEN a
    ELSE IF Includes(a, b) THEN a
    ELSE IF Includes(b, a) THEN b
    ELSE LET maxOverlap == Min(Len(a), Len(b))
             best == bestOverlapLength(a, b, maxOverlap)
         IN IF best > 0 THEN SubSeq(a, 1, Len(a) - best) \o b
            ELSE a \o b

---------------------------------------------------------------------------
(* The inputs the calls are checked on *)

\* pieces an answer text is assembled from: markers in and out of range, with
\* a leading zero and with two digits, a grouped marker, the two halves of a
\* marker, a letter and a space
Chunks ==
    { MarkerOf(<<"1">>), MarkerOf(<<"2">>), MarkerOf(<<"9">>),
      MarkerOf(<<"1", "2">>), MarkerOf(<<"0", "1">>),
      <<"[", "^", "1", ",", " ", "^", "2", "]">>,
      <<"[", "^">>, <<"1", "]">>, <<"a">>, <<" ">> }

\* the texts made of at most n chunks
RECURSIVE ChunkTexts(_)
ChunkTexts(n) ==
    IF n = 0 THEN {<<>>}
    ELSE LET shorter == ChunkTexts(n - 1)
         IN shorter \cup {t \o c : t \in shorter, c \in Chunks}

\* "[^2] [^2] [^2]" and "[^1,^2,^3]"
ExampleTexts ==
    { MarkerOf(<<"2">>) \o <<" ">> \o MarkerOf(<<"2">>) \o <<" ">> \o MarkerOf(<<"2">>),
      <<"[", "^", "1", ",", "^", "2", ",", "^", "3", "]">> }

PlainRef == [exactQuote |-> <<"q">>, url |-> NoUrl]

\* n references without a URL
PlainRefs(n) == [k \in 1..n |-> PlainRef]

\* texts that reach every return statement with one to three references
FewTexts ==
    { <<>>, <<" ", "a", NL>>, MarkerOf(<<"1">>),
      <<NL>> \o MarkerOf(<<"1">>) \o <<"a">> \o MarkerOf(<<"2">>) \o <<" ">>,
      MarkerOf(<<"9">>) \o <<" ">> \o MarkerOf(<<"9">>),
      MarkerOf(<<"1">>) \o MarkerOf(<<"2">>) \o MarkerOf(<<"1">>) }

\* "q" and "a, b!!"
Quotes == { <<"q">>, <<"a", ",", " ", "b", "!", "!">> }

\* absent, "x.y", "http://www.a.b/c", "http", "https://"
Urls ==
    { NoUrl,
      Url(<<"x", ".", "y">>),
      Url(Http \o <<":", "/", "/", "w", "w", "w", ".", "a", ".", "b", "/", "c">>),
      Url(Http),
      Url(Http \o <<"s", ":", "/", "/">>) }

RefPool == {[exactQuote |-> q, url |-> u] : q \in Quotes, u \in Urls}

\* the reference lists of at most n references
RECURSIVE RefLists(_)
RefLists(n) ==
    IF n = 0 THEN {<<>>}
    ELSE LET shorter == RefLists(n - 1)
         IN shorter \cup {Append(l, r) : l \in shorter, r \in RefPool}

\* the strings over {a, b} of at most n characters
RECURSIVE Strings(_)
Strings(n) ==
    IF n = 0 THEN {<<>>}
    ELSE LET shorter == Strings(n - 1)
         IN shorter \cup {Append(t, c) : t \in shorter, c \in {"a", "b"}}

HelloWor == <<"h", "e", "l", "l", "o", " ", "w", "o", "r">>
World == <<"w", "o", "r", "l", "d">>
HelloWorld == <<"h", "e", "l", "l", "o", " ", "w", "o", "r", "l", "d">>
Foo == <<"f", "o", "o">>
Bar == <<"b", "a", "r">>

ExampleStrings == {HelloWor, World, Foo, Bar, <<"a", "b", "c">>}

---------------------------------------------------------------------------
(* The calls *)

InitBuild ==
    /\ \/ /\ answer \in ChunkTexts(MaxChunks) \cup ExampleTexts
          /\ references \in {PlainRefs(n) : n \in 0..MaxRefs}
       \/ /\ answer \in FewTexts
          /\ references \in RefLists(MaxRefList)
    /\ str1 = <<>>
    /\ str2 = <<>>
    /\ pc = "ready"
    /\ path = "none"
    /\ result = <<>>

InitMerge ==
    /\ answer = <<>>
    /\ references = <<>>
    /\ str1 \in Strings(MaxLen) \cup ExampleStrings
    /\ str2 \in Strings(MaxLen) \cup ExampleStrings
    /\ pc = "ready"
    /\ path = "none"
    /\ result = <<>>

\* buildMdFromAnswer({answer, references}) runs to its return or its throw
CallBuildMdFromAnswer ==
    /\ pc = "ready"
    /\ LET r == buildMdFromAnswer(answer, references)
       IN /\ pc' = r.status
          /\ path' = r.path
          /\ result' = r.value
    /\ UNCHANGED <<answer, references, str1, str2>>

\* smartMergeStrings(str1, str2) runs to its return
CallSmartMergeStrings ==
    /\ pc = "ready"
    /\ pc' = "returned"
    /\ path' = "merge"
    /\ result' = smartMergeStrings(str1, str2)
    /\ UNCHANGED <<answer, references, str1, str2>>

NextBuild == CallBuildMdFromAnswer

NextMerge == CallSmartMergeStrings

SpecBuild == InitBuild /\ [][NextBuild]_vars

SpecMerge == InitMerge /\ [][NextMerge]_vars

---------------------------------------------------------------------------
(* Vocabulary of the properties *)

\* the grouped-normalized text and the markers found in it
Processed == ReplaceGrouped(answer)
Found == ExtractFootnotes(Processed)
RefCount == Len(references)

IsTrimmed(s) == Len(s) = 0 \/ (s[1] \notin WhiteSpace /\ s[Len(s)] \notin WhiteSpace)

\* [^1][^2]...[^n]
RECURSIVE MarkersUpTo(_)
MarkersUpTo(n) == IF n = 0 THEN <<>> ELSE MarkersUpTo(n - 1) \o <<"[", "^">> \o Str(n) \o <<"]">>

\* [^i] for the i of from..n that are not in used, ascending
RECURSIVE MarkersNotIn(_, _, _)
MarkersNotIn(used, from, n) ==
    IF from > n THEN <<>>
    ELSE (IF from \in used THEN <<>> ELSE <<"[", "^">> \o Str(from) \o <<"]">>)
         \o MarkersNotIn(used, from + 1, n)

\* the pieces of s between blank lines
RECURSIVE SplitBlankFrom(_, _, _)
SplitBlankFrom(s, i, cur) ==
    IF i > Len(s) THEN <<cur>>
    ELSE IF At(s, i) = NL /\ At(s, i + 1) = NL
         THEN <<cur>> \o SplitBlankFrom(s, i + 2, <<>>)
         ELSE SplitBlankFrom(s, i + 1, Append(cur, s[i]))

SplitBlank(s) == SplitBlankFrom(s, 1, <<>>)

\* the pieces of s between its markers (one more than it has markers)
RECURSIVE SegmentsFrom(_, _, _)
SegmentsFrom(s, i, cur) ==
    IF i > Len(s) THEN <<cur>>
    ELSE LET e == MatchFootnote(s, i)
         IN IF e > 0 THEN <<cur>> \o SegmentsFrom(s, e, <<>>)
            ELSE SegmentsFrom(s, i + 1, Append(cur, s[i]))

Segments(s) == SegmentsFrom(s, 1, <<>>)

\* segs[1] [^k] segs[2] [^k+1] ... segs[last]
RECURSIVE Renumbered(_, _)
Renumbered(segs, k) ==
    IF Len(segs) = 1 THEN segs[1]
    ELSE segs[1] \o <<"[", "^">> \o Str(k) \o <<"]">> \o Renumbered(Tail(segs), k + 1)

\* needsCorrection as the properties word it
AllIdentical(f) == Cardinality({f[k] : k \in 1..Len(f)}) = 1

CorrectionNeeded(f, n) ==
    /\ Len(f) > 0
    /\ \/ AllIdentical(f) /\ Len(f) = n
       \/ AllIdentical(f) /\ ParseInt(f[1]) > n
       \/ \A k \in 1..Len(f) : ParseInt(f[k]) > n

\* the reference block has one definition line per reference, [^i]: in order
BlockInListOrder(block, n) ==
    LET lines == SplitBlank(block)
    IN /\ Len(lines) = n
       /\ \A i \in 1..n : StartsWith(lines[i], <<"[", "^">> \o Str(i) \o <<"]", ":", " ">>)

\* the url of r begins with "http" and does not parse
BadUrl(r) == r.url.present /\ StartsWith(r.url.text, Http) /\ ~UrlParses(r.url.text)

SomeBadUrl == \E i \in 1..RefCount : BadUrl(references[i])

\* the i-th of the last n blank-line separated pieces of s
DefinitionLine(s, i, n) == SplitBlank(s)[Len(SplitBlank(s)) - n + i]

---------------------------------------------------------------------------
(* Properties of buildMdFromAnswer, checked under SpecBuild *)

\* C1: with a non-empty reference list, every footnote marker [^n] of the
\* returned string has 1 <= n <= len(references), on every path.
C1_MarkersInRange ==
    (pc = "returned" /\ RefCount > 0) =>
        LET markers == ExtractFootnotes(result)
        IN \A k \in 1..Len(markers) :
              ParseInt(markers[k]) >= 1 /\ ParseInt(markers[k]) <= RefCount

\* C2: with an empty reference list, the returned string contains no
\* substring of the form [^n].
C2_NoMarkerRemains ==
    (pc = "returned" /\ RefCount = 0) => ExtractFootnotes(result) = <<>>

\* C3 as stated: every returned string, the empty-reference-list path
\* included, has no leading and no trailing whitespace.
C3_AllTrimmed == pc = "returned" => IsTrimmed(result)

\* C3 as amended: every string returned for a non-empty reference list has no
\* leading and no trailing whitespace; with an empty reference list the text
\* is returned with the leading and trailing whitespace it had.
C3_TrimmedWithReferences ==
    /\ (pc = "returned" /\ RefCount > 0) => IsTrimmed(result)
    /\ (pc = "returned" /\ RefCount = 0 /\ Found = <<>>) => result = answer

C3_Witness ==
    /\ pc = "returned" /\ path = "default"
    /\ Len(answer) > 0 /\ answer[1] \in WhiteSpace
    /\ cleanQuote(references[RefCount].exactQuote) # TrimEnd(cleanQuote(references[RefCount].exactQuote))
    /\ IsTrimmed(result)

\* C4: with n > 0 references and no single marker found after normalization,
\* the result is the text, then the marker line (the glyph and [^1]...[^n]
\* with no separator), then the reference block of n definition lines
\* [^1]: ... [^n]: in list order; the whole is trimmed.
C4_NoMarkersAppendsAll ==
    (pc = "returned" /\ RefCount > 0 /\ Found = <<>>) =>
        /\ result = Trim(answer \o <<NL, NL, Glyph>> \o MarkersUpTo(RefCount)
                         \o <<NL, NL>> \o formatReferences(references))
        /\ BlockInListOrder(formatReferences(references), RefCount)

C4_Witness ==
    /\ pc = "returned" /\ path = "no-markers"
    /\ RefCount = 2 /\ "a" \in {answer[i] : i \in 1..Len(answer)}
    /\ Len(SplitBlank(result)) = 4

\* C5: with references and found markers, whenever needsCorrection holds
\* the k-th marker occurrence becomes [^k], the text between the markers is
\* unchanged, no glyph line is inserted, and the reference block follows;
\* "[^2] [^2] [^2]" with 3 references becomes "[^1] [^2] [^3]" and the block.
C5_CorrectionRenumbers ==
    /\ (pc = "returned" /\ RefCount > 0 /\ CorrectionNeeded(Found, RefCount)) =>
          /\ path = "correction"
          /\ result = Trim(Renumbered(Segments(Processed), 1) \o <<NL, NL>>
                           \o formatReferences(references))
          /\ Glyph \notin {result[i] : i \in 1..Len(result)}
    /\ (pc = "returned" /\ references = PlainRefs(3)
          /\ answer = <<"[", "^", "2", "]", " ", "[", "^", "2", "]", " ", "[", "^", "2", "]">>) =>
          result = <<"[", "^", "1", "]", " ", "[", "^", "2", "]", " ", "[", "^", "3", "]",
                     NL, NL, "[", "^", "1", "]", ":", " ", "q",
                     NL, NL, "[", "^", "2", "]", ":", " ", "q",
                     NL, NL, "[", "^", "3", "]", ":", " ", "q">>

C5_Witness ==
    /\ pc = "returned" /\ path = "correction"
    /\ RefCount = 3
    /\ Found = <<<<"9">>, <<"1", "2">>>>
    /\ ExtractFootnotes(SplitBlank(result)[1]) = <<<<"1">>, <<"2">>>>

\* C6: when needsCorrection is false and the references outnumber the found
\* markers, the text keeps its markers and is followed by a glyph line with
\* [^i] exactly for the i of 1..len(references) that no found marker has as
\* its value, ascending, and then by the reference block; the
\* more-references return is never reached when needsCorrection holds.
C6_UnusedReferencesListed ==
    /\ (pc = "returned" /\ RefCount > Len(Found) /\ ~CorrectionNeeded(Found, RefCount)) =>
          LET used == {ParseInt(Found[k]) : k \in 1..Len(Found)}
              gap == IF Len(Found) = 0 THEN <<>> ELSE <<" ">>
          IN result = Trim(Processed \o gap \o <<NL, NL, Glyph>>
                           \o MarkersNotIn(used, 1, RefCount)
                           \o <<NL, NL>> \o formatReferences(references))
    /\ path = "more-references" =>
          /\ ~CorrectionNeeded(Found, RefCount)
          /\ RefCount > Len(Found)

C6_Witness ==
    /\ pc = "returned" /\ path = "more-references"
    /\ RefCount = 3
    /\ Found = <<<<"2">>, <<"0", "1">>>>
    /\ SplitBlank(result)[2] = <<Glyph, "[", "^", "3", "]">>

\* C7: with a non-empty reference list the call fails, returning no string,
\* exactly when some reference has a url that begins with "http" and does
\* not parse, whichever return it was heading for; a reference whose url is
\* absent or does not begin with "http" has a definition line without a link.
C7_BadUrlThrows ==
    (pc # "ready" /\ RefCount > 0) =>
        /\ pc = "threw" <=> SomeBadUrl
        /\ pc = "threw" => result = <<>>
        /\ pc = "returned" =>
              \A i \in 1..RefCount :
                 ~(references[i].url.present /\ StartsWith(references[i].url.text, Http)) =>
                    TrimEnd(DefinitionLine(result, i, RefCount))
                      = TrimEnd(<<"[", "^">> \o Str(i) \o <<"]", ":", " ">>
                                \o cleanQuote(references[i].exactQuote))

C7_Witness ==
    /\ pc = "threw" /\ path = "correction"
    /\ RefCount = 2
    /\ ~references[1].url.present
    /\ BadUrl(references[2])

---------------------------------------------------------------------------
(* Properties of smartMergeStrings, checked under SpecMerge *)

\* the lengths l for which the last l characters of a are the first l of b
Overlaps(a, b) ==
    {l \in 1..Min(Len(a), Len(b)) : SubSeq(a, Len(a) - l + 1, Len(a)) = SubSeq(b, 1, l)}

Largest(S) == CHOOSE l \in S : \A m \in S : m <= l

\* C8: for non-empty first and second, neither containing the other, the
\* result is first without its last L characters followed by second, L the
\* largest overlap; without an overlap it is first + second.
C8_LargestOverlapMerged ==
    /\ (pc = "returned" /\ Len(str1) > 0 /\ Len(str2) > 0
          /\ ~Includes(str1, str2) /\ ~Includes(str2, str1)) =>
          IF Overlaps(str1, str2) = {} THEN result = str1 \o str2
          ELSE result = SubSeq(str1, 1, Len(str1) - Largest(Overlaps(str1, str2))) \o str2
    /\ (pc = "returned" /\ str1 = HelloWor /\ str2 = World) => result = HelloWorld
    /\ (pc = "returned" /\ str1 = Foo /\ str2 = Bar) => result = Foo \o Bar

C8_Witness ==
    /\ pc = "returned"
    /\ str1 = <<"b", "a", "a">> /\ str2 = <<"a", "a", "b">>
    /\ Overlaps(str1, str2) = {1, 2}
    /\ result = <<"b", "a", "a", "b">>

\* C9: if first contains second the result is first, otherwise if second
\* contains first it is second; merge(s, "") = s, merge("", s) = s and
\* merge(s, s) = s; the call returns a string for every pair.
C9_ContainmentReturnsContainer ==
    /\ pc \in {"ready", "returned"}
    /\ pc = "returned" =>
          /\ Includes(str1, str2) => result = str1
          /\ (~Includes(str1, str2) /\ Includes(str2, str1)) => result = str2
          /\ str2 = <<>> => result = str1
          /\ str1 = <<>> => result = str2
          /\ str1 = str2 => result = str1
          /\ \A i \in 1..Len(result) : result[i] \in {str1[k] : k \in 1..Len(str1)}
                                                  \cup {str2[k] : k \in 1..Len(str2)}

C9_Witness ==
    /\ pc = "returned"
    /\ str1 = <<"a", "b", "c">> /\ str2 = <<"b">>
    /\ result = <<"a", "b", "c">>

\* C10: the result contains both first and second as contiguous substrings,
\* and its length is at least the longer length and at most the sum.
C10_NothingLost ==
    pc = "returned" =>
        /\ Includes(result, str1)
        /\ Includes(result, str2)
        /\ Len(result) >= Max(Len(str1), Len(str2))
        /\ Len(result) <= Len(str1) + Len(str2)

C10_Witness ==
    /\ pc = "returned"
    /\ str1 = <<"a", "b", "b">> /\ str2 = <<"b", "a">>
    /\ Len(result) = 4

===========================================================================
